---- MODULE Spec2Model ----
(***************************************************************************)
(* Versioned artifact store of task-context-mcp                            *)
(* (src/src/task_context_mcp/repositories/artifacts.py) on top of a        *)
(* document index (a ChromaDB collection).                                 *)
(*                                                                         *)
(* Values.  A metadata map is a function from key names to values; its     *)
(* DOMAIN is the set of keys present.  Values are strings, except the      *)
(* value of key "version", which is an integer in every map of this model. *)
(* Python's None is the string None; since an integer is never compared    *)
(* with a string, the None tests name the key.  Optional[int] and          *)
(* Optional[datetime] are <<>> (None) or <<x>>.  A datetime is the value   *)
(* of the clock when now() was called; isoformat() is Iso.                 *)
(***************************************************************************)
EXTENDS Integers, Sequences, FiniteSets, TLC

VARIABLES store, clock, last, prev, pc, loc, rets, catalog

vars == <<store, clock, last, prev, pc, loc, rets, catalog>>

\* ------------------------------------------------------------------ bounds
\* number of now() calls (one per add, and per update/delete that found its
\* artifact) in a behaviour
MaxOps == 4
\* the same, for the behaviours of interleaved callers
MaxConcOps == 3

\* ------------------------------------------------------------ input sets
None == "None"
NoOpt == <<>>
Some(x) == <<x>>

Ids == {"A", "B"}
\* (task_type, artifact_type) pairs given to add_artifact
Kinds == {<<"task1", "practice">>, <<"task2", "rule">>}
TaskTypes == {k[1] : k \in Kinds}
\* metadata maps given to add_artifact and update_artifact
NoMeta == [k \in {} |-> None]
CustomMeta == [k \in {"priority", "note"} |-> IF k = "priority" THEN "high" ELSE None]
StatusMeta == [k \in {"status", "priority"} |-> IF k = "status" THEN "reviewed" ELSE "high"]
VersionMeta == [k \in {"version"} |-> 0]
IdMeta == [k \in {"artifact_id"} |-> "B"]
Metas == {NoMeta, CustomMeta, StatusMeta, VersionMeta, IdMeta}
\* (reason, replacement_id) pairs given to delete_artifact
DeleteArgs == {<<None, None>>, <<"No longer needed", "new_artifact_123">>}

\* concurrent callers, and the metadata maps they give
Procs == {"p1", "p2"}
ConcMetas == {NoMeta, CustomMeta}
ConcKinds == {<<"task1", "practice">>}

\* version arguments of get_artifact
GetVersions == {NoOpt, Some(0), Some(1), Some(2)}
\* (task_type, artifact_type, status) arguments of list_artifacts
ListArgs ==
  {<<None, None, "active">>, <<"task1", None, "active">>,
   <<None, "practice", "active">>, <<None, None, "archived">>,
   <<"task1", None, "archived">>}

\* ------------------------------------------------------------- schemas.py
ArtifactTypeValues == {"practice", "rule", "prompt", "result"}
ACTIVE == "active"
DEPRECATED == "deprecated"
ARCHIVED == "archived"
ArtifactStatusValues == {ACTIVE, DEPRECATED, ARCHIVED}

\* datetime.isoformat() and datetime.fromisoformat()
Iso(t) == "T" \o ToString(t)
IsIso(s) == \E t \in 0..(MaxOps + 1) : Iso(t) = s
FromIso(s) == CHOOSE t \in 0..(MaxOps + 1) : Iso(t) = s

\* `v is None` for the value v of key k
IsNone(k, v) == k # "version" /\ v = None

\* {k: v for k, v in m.items() if v is not None}
StripNone(m) ==
  LET keep == {k \in DOMAIN m : ~IsNone(k, m[k])}
  IN [k \in keep |-> m[k]]

\* {**a, **b}
Merge(a, b) ==
  [k \in DOMAIN a \cup DOMAIN b |-> IF k \in DOMAIN b THEN b[k] ELSE a[k]]

\* m.get(k)
Get(m, k) == IF k \in DOMAIN m THEN m[k] ELSE None

\* ---------------------------------------------------- the document index
\* IndexAdd as an upsert: a record stored under the id is overwritten
IndexUpsert(st, id, document, metadata) ==
  IF \E i \in 1..Len(st) : st[i].id = id
  THEN [i \in 1..Len(st) |->
          IF st[i].id = id
          THEN [id |-> id, document |-> document, metadata |-> metadata]
          ELSE st[i]]
  ELSE Append(st, [id |-> id, document |-> document, metadata |-> metadata])

\* collection.add: a record whose id is already stored is ignored
IndexAdd(st, id, document, metadata) ==
  IF \E i \in 1..Len(st) : st[i].id = id
  THEN st
  ELSE Append(st, [id |-> id, document |-> document, metadata |-> metadata])

\* IndexGetIds with the id ignored: every stored record
IndexGetIdsAll(st, id) == st

\* collection.get(ids=[id])
IndexGetIds(st, id) ==
  LET Hit(d) == d.id = id IN SelectSeq(st, Hit)

\* IndexGetWhere with the filter dropped: every stored record
IndexGetAll(st, where) == st

\* collection.get(where=...): conjunctive equality on metadata
IndexGetWhere(st, where) ==
  LET Hit(d) == \A k \in DOMAIN where :
                  k \in DOMAIN d.metadata /\ d.metadata[k] = where[k]
  IN SelectSeq(st, Hit)

\* collection.update(ids=[id], metadatas=[metadata]): the given keys are
\* written over the stored map, a key given as None is removed
IndexUpdate(st, id, metadata) ==
  [i \in 1..Len(st) |->
     IF st[i].id = id
     THEN [st[i] EXCEPT !.metadata =
             LET drop == {k \in DOMAIN metadata : IsNone(k, metadata[k])}
                 m == Merge(st[i].metadata, metadata)
             IN [k \in DOMAIN m \ drop |-> m[k]]]
     ELSE st[i]]

\* ---------------------------------------------------- ArtifactRepository
MakeArtifactId(artifact_id, version) == artifact_id \o "_v" \o ToString(version)

StandardFields ==
  {"task_type", "artifact_type", "version", "status", "created_at",
   "deprecated_at", "deprecated_reason", "replacement_id", "artifact_id"}

\* ArtifactMetadata(...).model_dump(exclude_none=True)
ArtifactMetadata(task_type, artifact_type, version, status, created_at) ==
  [k \in {"task_type", "artifact_type", "version", "status", "created_at"} |->
     CASE k = "task_type" -> task_type
       [] k = "artifact_type" -> artifact_type
       [] k = "version" -> version
       [] k = "status" -> status
       [] k = "created_at" -> created_at]

\* combined_metadata of add_artifact and update_artifact
CombinedMetadata(base, artifact_id, metadata) ==
  StripNone(Merge(Merge(base, [k \in {"artifact_id"} |-> artifact_id]), metadata))

\* ArtifactSchema built from explicit arguments (add_artifact, update_artifact)
NewView(artifact_id, task_type, artifact_type, version, content, metadata, now) ==
  [artifact_id |-> artifact_id, task_type |-> task_type,
   artifact_type |-> artifact_type, version |-> version, content |-> content,
   metadata |-> metadata, status |-> ACTIVE, deprecated_at |-> NoOpt,
   deprecated_reason |-> None, replacement_id |-> None, created_at |-> now]

\* the ArtifactSchema(...) construction from a stored record raises
ViewRaises(metadata) ==
  \/ \E k \in {"artifact_id", "task_type", "artifact_type", "version", "status",
               "created_at"} : k \notin DOMAIN metadata
  \/ metadata["artifact_type"] \notin ArtifactTypeValues
  \/ metadata["status"] \notin ArtifactStatusValues
  \/ ~IsIso(metadata["created_at"])
  \/ /\ "deprecated_at" \in DOMAIN metadata
     /\ ~IsIso(metadata["deprecated_at"])

\* StoredView without the removal of the standard fields
StoredViewUnfiltered(d) ==
  LET metadata == d.metadata
  IN [artifact_id |-> metadata["artifact_id"],
      task_type |-> metadata["task_type"],
      artifact_type |-> metadata["artifact_type"],
      version |-> metadata["version"],
      content |-> d.document,
      metadata |-> metadata,
      status |-> metadata["status"],
      deprecated_at |-> IF "deprecated_at" \in DOMAIN metadata
                        THEN Some(FromIso(metadata["deprecated_at"]))
                        ELSE NoOpt,
      deprecated_reason |-> Get(metadata, "deprecated_reason"),
      replacement_id |-> Get(metadata, "replacement_id"),
      created_at |-> FromIso(metadata["created_at"])]

\* ArtifactSchema built from a stored record (get_artifact, list_artifacts)
StoredView(d) ==
  LET metadata == d.metadata
      custom == DOMAIN metadata \ StandardFields
  IN [artifact_id |-> metadata["artifact_id"],
      task_type |-> metadata["task_type"],
      artifact_type |-> metadata["artifact_type"],
      version |-> metadata["version"],
      content |-> d.document,
      metadata |-> [k \in custom |-> metadata[k]],
      status |-> metadata["status"],
      deprecated_at |-> IF "deprecated_at" \in DOMAIN metadata
                        THEN Some(FromIso(metadata["deprecated_at"]))
                        ELSE NoOpt,
      deprecated_reason |-> Get(metadata, "deprecated_reason"),
      replacement_id |-> Get(metadata, "replacement_id"),
      created_at |-> FromIso(metadata["created_at"])]

\* index of the record get_artifact picks among the fetched ones
RECURSIVE LatestIdx(_, _, _, _)
LatestIdx(result, idx, latest_idx, latest_version) ==
  IF idx > Len(result) THEN latest_idx
  ELSE IF result[idx].metadata["version"] > latest_version
       THEN LatestIdx(result, idx + 1, idx, result[idx].metadata["version"])
       ELSE LatestIdx(result, idx + 1, latest_idx, latest_version)

RECURSIVE VersionIdx(_, _, _)
VersionIdx(result, idx, version) ==
  IF idx > Len(result) THEN 1
  ELSE IF result[idx].metadata["version"] = version THEN idx
       ELSE VersionIdx(result, idx + 1, version)

\* GetArtifact without the except clause around the building of the view
GetArtifactUnguarded(st, artifact_id, version) ==
  LET result == IF version # NoOpt
                THEN IndexGetIds(st, MakeArtifactId(artifact_id, version[1]))
                ELSE IndexGetWhere(st, [k \in {"artifact_id"} |-> artifact_id])
  IN IF Len(result) = 0 THEN NoOpt
     ELSE LET idx == IF version # NoOpt
                     THEN VersionIdx(result, 1, version[1])
                     ELSE LatestIdx(result, 1, 1, 0)
          IN Some(StoredView(result[idx]))

\* get_artifact(artifact_id, version): <<view>>, or <<>> for None
GetArtifact(st, artifact_id, version) ==
  LET result == IF version # NoOpt
                THEN IndexGetIds(st, MakeArtifactId(artifact_id, version[1]))
                ELSE IndexGetWhere(st, [k \in {"artifact_id"} |-> artifact_id])
  IN IF Len(result) = 0 THEN NoOpt
     ELSE LET idx == IF version # NoOpt
                     THEN VersionIdx(result, 1, version[1])
                     ELSE LatestIdx(result, 1, 1, 0)
          IN IF ViewRaises(result[idx].metadata) THEN NoOpt
             ELSE Some(StoredView(result[idx]))

\* ListWhere with the status condition only
ListWhereStatusOnly(task_type, artifact_type, status) ==
  [k \in {"status"} |-> status]

\* the where clause of list_artifacts
ListWhere(task_type, artifact_type, status) ==
  Merge(Merge([k \in {"status"} |-> status],
              IF task_type # None THEN [k \in {"task_type"} |-> task_type]
              ELSE [k \in {} |-> None]),
        IF artifact_type # None THEN [k \in {"artifact_type"} |-> artifact_type]
        ELSE [k \in {} |-> None])

\* artifacts_by_id of list_artifacts after the first n fetched records: a
\* sequence of <<artifact_id, version, idx>>, in the order the ids were first met
RECURSIVE ArtifactsById(_, _)
ArtifactsById(result, n) ==
  IF n = 0 THEN <<>>
  ELSE LET by_id == ArtifactsById(result, n - 1)
           aid == result[n].metadata["artifact_id"]
           version == result[n].metadata["version"]
           at == {j \in 1..Len(by_id) : by_id[j][1] = aid}
       IN IF at = {} THEN Append(by_id, <<aid, version, n>>)
          ELSE LET j == CHOOSE j \in at : TRUE
               IN IF version > by_id[j][2]
                  THEN [by_id EXCEPT ![j] = <<aid, version, n>>]
                  ELSE by_id

\* ListRecords without the grouping by artifact_id: every fetched record
ListRecordsUngrouped(st, task_type, artifact_type, status) ==
  IndexGetWhere(st, ListWhere(task_type, artifact_type, status))

\* the records list_artifacts builds its views from, in result order
ListRecords(st, task_type, artifact_type, status) ==
  LET result == IndexGetWhere(st, ListWhere(task_type, artifact_type, status))
      by_id == ArtifactsById(result, Len(result))
  IN [j \in 1..Len(by_id) |-> result[by_id[j][3]]]

\* list_artifacts raises while it builds a view
ListRaises(st, task_type, artifact_type, status) ==
  LET records == ListRecords(st, task_type, artifact_type, status)
  IN \E j \in 1..Len(records) : ViewRaises(records[j].metadata)

\* list_artifacts(task_type, artifact_type, status): the sequence of views
ListArtifacts(st, task_type, artifact_type, status) ==
  LET records == ListRecords(st, task_type, artifact_type, status)
  IN [j \in 1..Len(records) |-> StoredView(records[j])]

\* UpdateWrite with the new version number off by one
UpdateWriteSkip(st, latest, artifact_id, content, metadata, now) ==
  LET new_version == latest.version + 2
      combined == CombinedMetadata(
                    ArtifactMetadata(latest.task_type, latest.artifact_type,
                                     new_version, ACTIVE, Iso(now)),
                    artifact_id, metadata)
  IN IndexAdd(st, MakeArtifactId(artifact_id, new_version), content, combined)

\* UpdateWrite that also sets the stored versions of the artifact to ACTIVE
UpdateWriteRevive(st, latest, artifact_id, content, metadata, now) ==
  LET new_version == latest.version + 1
      combined == CombinedMetadata(
                    ArtifactMetadata(latest.task_type, latest.artifact_type,
                                     new_version, ACTIVE, Iso(now)),
                    artifact_id, metadata)
      revived == [i \in 1..Len(st) |->
                    IF Get(st[i].metadata, "artifact_id") = artifact_id
                    THEN [st[i] EXCEPT !.metadata =
                            Merge(@, [k \in {"status"} |-> ACTIVE])]
                    ELSE st[i]]
  IN IndexAdd(revived, MakeArtifactId(artifact_id, new_version), content, combined)

\* the record update_artifact writes, given the latest view it read
UpdateWrite(st, latest, artifact_id, content, metadata, now) ==
  LET new_version == latest.version + 1
      combined == CombinedMetadata(
                    ArtifactMetadata(latest.task_type, latest.artifact_type,
                                     new_version, ACTIVE, Iso(now)),
                    artifact_id, metadata)
  IN IndexAdd(st, MakeArtifactId(artifact_id, new_version), content, combined)

\* the view update_artifact returns
UpdateView(latest, artifact_id, content, metadata, now) ==
  NewView(artifact_id, latest.task_type, latest.artifact_type,
          latest.version + 1, content, metadata, now)

\* ArchivedMetadata with the status DEPRECATED in place of ARCHIVED
ArchivedMetadataDeprecated(metadata, now, reason, replacement_id) ==
  LET archived == Merge(metadata,
                    [k \in {"status", "deprecated_at", "deprecated_reason"} |->
                       CASE k = "status" -> DEPRECATED
                         [] k = "deprecated_at" -> Iso(now)
                         [] k = "deprecated_reason" -> reason])
  IN IF replacement_id # None
     THEN Merge(archived, [k \in {"replacement_id"} |-> replacement_id])
     ELSE archived

\* the metadata delete_artifact writes back, from the map it fetched
ArchivedMetadata(metadata, now, reason, replacement_id) ==
  LET archived == Merge(metadata,
                    [k \in {"status", "deprecated_at", "deprecated_reason"} |->
                       CASE k = "status" -> ARCHIVED
                         [] k = "deprecated_at" -> Iso(now)
                         [] k = "deprecated_reason" -> reason])
  IN IF replacement_id # None
     THEN Merge(archived, [k \in {"replacement_id"} |-> replacement_id])
     ELSE archived

\* DeleteWrite archiving every stored version of the artifact, not one key
DeleteWriteAll(st, doc_id, result, now, reason, replacement_id) ==
  IF Len(result) > 0
  THEN [i \in 1..Len(st) |->
          IF Get(st[i].metadata, "artifact_id") = Get(result[1].metadata, "artifact_id")
          THEN IndexUpdate(st, st[i].id,
                           ArchivedMetadata(st[i].metadata, now, reason,
                                            replacement_id))[i]
          ELSE st[i]]
  ELSE st

\* delete_artifact's write-back of the record it fetched by key
DeleteWrite(st, doc_id, result, now, reason, replacement_id) ==
  IF Len(result) > 0
  THEN IndexUpdate(st, doc_id,
                   ArchivedMetadata(result[1].metadata, now, reason, replacement_id))
  ELSE st

\* the view delete_artifact returns
ArchivedView(latest, now, reason, replacement_id) ==
  [latest EXCEPT !.status = ARCHIVED, !.deprecated_at = Some(now),
                 !.deprecated_reason = reason, !.replacement_id = replacement_id]

\* the errors a call ends in: ValueError(f"Artifact {artifact_id} not found")
\* of update_artifact and delete_artifact, and an exception of the index
NotFound == "ValueError: not found"
IndexError == "IndexError"

\* ----------------------------------------------------------- sequential
Init ==
  /\ store = <<>>
  /\ clock = 0
  /\ last = [op |-> "init"]
  /\ prev = <<>>
  /\ pc = [p \in Procs |-> "idle"]
  /\ loc = [p \in Procs |-> [op |-> "none"]]
  /\ rets = [p \in Procs |-> [op |-> "none"]]
  /\ catalog = <<>>

\* ids that have a record stored under their version 1 key
StoredIds(st) ==
  {a \in Ids : \E i \in 1..Len(st) : st[i].id = MakeArtifactId(a, 1)}

\* str(uuid.uuid4()): an id no record is stored for
Uuid4(st) == CHOOSE a \in Ids \ StoredIds(st) : TRUE

\* the artifact_id argument of add_artifact: omitted (NoOpt), and then
\* generated, or the id of a stored artifact; a caller-chosen id that is not
\* stored yet acts as a generated one
IdArgs(st) ==
  (IF StoredIds(st) # Ids THEN {NoOpt} ELSE {}) \cup {Some(a) : a \in StoredIds(st)}

\* add_artifact
AddArtifact(task_type, artifact_type, metadata, id_arg) ==
  /\ clock < MaxOps
  /\ LET artifact_id == IF id_arg = NoOpt THEN Uuid4(store) ELSE id_arg[1]
         now == clock + 1
         content == "content" \o ToString(now)
         combined == CombinedMetadata(
                       ArtifactMetadata(task_type, artifact_type, 1, ACTIVE, Iso(now)),
                       artifact_id, metadata)
     IN /\ store' = IndexAdd(store, MakeArtifactId(artifact_id, 1), content, combined)
        /\ clock' = now
        /\ last' = [op |-> "add", artifact_id |-> artifact_id, content |-> content,
                    metadata |-> metadata, raised |-> FALSE,
                    result |-> NewView(artifact_id, task_type, artifact_type, 1,
                                       content, metadata, now)]
  /\ prev' = store
  /\ UNCHANGED <<pc, loc, rets, catalog>>

\* update_artifact
UpdateArtifact(artifact_id, metadata) ==
  LET latest == GetArtifact(store, artifact_id, NoOpt)
      now == clock + 1
      content == "content" \o ToString(now)
  IN /\ prev' = store
     /\ UNCHANGED <<pc, loc, rets, catalog>>
     /\ IF latest = NoOpt
        THEN /\ last' = [op |-> "update", artifact_id |-> artifact_id,
                         raised |-> TRUE, error |-> NotFound]
             /\ UNCHANGED <<store, clock>>
        ELSE /\ clock < MaxOps
             /\ clock' = now
             /\ store' = UpdateWrite(store, latest[1], artifact_id, content,
                                     metadata, now)
             /\ last' = [op |-> "update", artifact_id |-> artifact_id,
                         content |-> content, metadata |-> metadata,
                         raised |-> FALSE,
                         result |-> UpdateView(latest[1], artifact_id, content,
                                               metadata, now)]

\* delete_artifact
DeleteArtifact(artifact_id, reason, replacement_id) ==
  LET latest == GetArtifact(store, artifact_id, NoOpt)
      now == clock + 1
  IN /\ prev' = store
     /\ UNCHANGED <<pc, loc, rets, catalog>>
     /\ IF latest = NoOpt
        THEN /\ last' = [op |-> "delete", artifact_id |-> artifact_id,
                         raised |-> TRUE, error |-> NotFound]
             /\ UNCHANGED <<store, clock>>
        ELSE LET doc_id == MakeArtifactId(artifact_id, latest[1].version)
                 result == IndexGetIds(store, doc_id)
             IN /\ clock < MaxOps
                /\ clock' = now
                /\ store' = DeleteWrite(store, doc_id, result, now, reason,
                                        replacement_id)
                /\ last' = [op |-> "delete", artifact_id |-> artifact_id,
                            reason |-> reason, replacement_id |-> replacement_id,
                            raised |-> FALSE,
                            result |-> ArchivedView(latest[1], now, reason,
                                                    replacement_id)]

\* a call of get_artifact
GetArtifactCall(artifact_id, version) ==
  /\ last' = [op |-> "get", artifact_id |-> artifact_id, version |-> version,
              raised |-> FALSE,
              result |-> GetArtifact(store, artifact_id, version)]
  /\ prev' = store
  /\ UNCHANGED <<store, clock, pc, loc, rets, catalog>>

\* a call of list_artifacts
ListArtifactsCall(task_type, artifact_type, status) ==
  /\ IF ListRaises(store, task_type, artifact_type, status)
     THEN last' = [op |-> "list", task_type |-> task_type,
                   artifact_type |-> artifact_type, status |-> status,
                   raised |-> TRUE]
     ELSE last' = [op |-> "list", task_type |-> task_type,
                   artifact_type |-> artifact_type, status |-> status,
                   raised |-> FALSE,
                   result |-> ListArtifacts(store, task_type, artifact_type, status)]
  /\ prev' = store
  /\ UNCHANGED <<store, clock, pc, loc, rets, catalog>>

\* ----------------------------------------------------------- concurrent
\* Callers whose calls interleave between index calls.  pc[p] is the index
\* call p makes next, loc[p] the locals of its call, rets[p] what its last
\* completed call returned (with the latest view the call had read).

\* add_artifact: one index call
CAdd(p, task_type, artifact_type, metadata, id_arg) ==
  /\ pc[p] = "idle"
  /\ clock < MaxConcOps
  /\ LET artifact_id == IF id_arg = NoOpt THEN Uuid4(store) ELSE id_arg[1]
         now == clock + 1
         content == "content" \o ToString(now)
         combined == CombinedMetadata(
                       ArtifactMetadata(task_type, artifact_type, 1, ACTIVE, Iso(now)),
                       artifact_id, metadata)
     IN /\ store' = IndexAdd(store, MakeArtifactId(artifact_id, 1), content, combined)
        /\ clock' = now
        /\ rets' = [rets EXCEPT ![p] =
                      [op |-> "add", artifact_id |-> artifact_id, raised |-> FALSE,
                       result |-> NewView(artifact_id, task_type, artifact_type, 1,
                                          content, metadata, now)]]
  /\ UNCHANGED <<last, prev, pc, loc, catalog>>

\* update_artifact up to its read of the latest version
CUpdateRead(p, artifact_id, metadata) ==
  /\ pc[p] = "idle"
  /\ LET latest == GetArtifact(store, artifact_id, NoOpt)
         now == clock + 1
     IN IF latest = NoOpt
        THEN /\ rets' = [rets EXCEPT ![p] =
                           [op |-> "update", artifact_id |-> artifact_id,
                            raised |-> TRUE, error |-> NotFound]]
             /\ UNCHANGED <<clock, pc, loc>>
        ELSE /\ clock < MaxConcOps
             /\ clock' = now
             /\ loc' = [loc EXCEPT ![p] =
                          [op |-> "update", artifact_id |-> artifact_id,
                           content |-> "content" \o ToString(now),
                           metadata |-> metadata, latest |-> latest[1],
                           now |-> now]]
             /\ pc' = [pc EXCEPT ![p] = "update_add"]
             /\ UNCHANGED rets
  /\ UNCHANGED <<store, last, prev, catalog>>

\* update_artifact from its collection.add to its return
CUpdateAdd(p) ==
  /\ pc[p] = "update_add"
  /\ LET l == loc[p]
     IN /\ store' = UpdateWrite(store, l.latest, l.artifact_id, l.content,
                                l.metadata, l.now)
        /\ rets' = [rets EXCEPT ![p] =
                      [op |-> "update", artifact_id |-> l.artifact_id,
                       raised |-> FALSE, latest |-> l.latest,
                       result |-> UpdateView(l.latest, l.artifact_id, l.content,
                                             l.metadata, l.now)]]
  /\ pc' = [pc EXCEPT ![p] = "idle"]
  /\ loc' = [loc EXCEPT ![p] = [op |-> "none"]]
  /\ UNCHANGED <<clock, last, prev, catalog>>

\* delete_artifact up to its read of the latest version
CDeleteRead(p, artifact_id, reason, replacement_id) ==
  /\ pc[p] = "idle"
  /\ LET latest == GetArtifact(store, artifact_id, NoOpt)
         now == clock + 1
     IN IF latest = NoOpt
        THEN /\ rets' = [rets EXCEPT ![p] =
                           [op |-> "delete", artifact_id |-> artifact_id,
                            raised |-> TRUE, error |-> NotFound]]
             /\ UNCHANGED <<clock, pc, loc>>
        ELSE /\ clock < MaxConcOps
             /\ clock' = now
             /\ loc' = [loc EXCEPT ![p] =
                          [op |-> "delete", artifact_id |-> artifact_id,
                           reason |-> reason, replacement_id |-> replacement_id,
                           latest |-> latest[1], now |-> now, result |-> <<>>]]
             /\ pc' = [pc EXCEPT ![p] = "delete_get"]
             /\ UNCHANGED rets
  /\ UNCHANGED <<store, last, prev, catalog>>

\* delete_artifact's collection.get of the latest version by key
CDeleteGet(p) ==
  /\ pc[p] = "delete_get"
  /\ LET l == loc[p]
         doc_id == MakeArtifactId(l.artifact_id, l.latest.version)
     IN loc' = [loc EXCEPT ![p].result = IndexGetIds(store, doc_id)]
  /\ pc' = [pc EXCEPT ![p] = "delete_update"]
  /\ UNCHANGED <<store, clock, last, prev, rets, catalog>>

\* delete_artifact from its collection.update (made when the key was found)
\* to its return
CDeleteUpdate(p) ==
  /\ pc[p] = "delete_update"
  /\ LET l == loc[p]
         doc_id == MakeArtifactId(l.artifact_id, l.latest.version)
     IN /\ store' = DeleteWrite(store, doc_id, l.result, l.now, l.reason,
                                l.replacement_id)
        /\ rets' = [rets EXCEPT ![p] =
                      [op |-> "delete", artifact_id |-> l.artifact_id,
                       raised |-> FALSE, latest |-> l.latest,
                       result |-> ArchivedView(l.latest, l.now, l.reason,
                                               l.replacement_id)]]
  /\ pc' = [pc EXCEPT ![p] = "idle"]
  /\ loc' = [loc EXCEPT ![p] = [op |-> "none"]]
  /\ UNCHANGED <<clock, last, prev, catalog>>

Next ==
  \/ \E k \in Kinds, m \in Metas, a \in IdArgs(store) :
       AddArtifact(k[1], k[2], m, a)
  \/ \E a \in Ids, m \in Metas : UpdateArtifact(a, m)
  \/ \E a \in Ids, d \in DeleteArgs : DeleteArtifact(a, d[1], d[2])
  \/ \E a \in Ids, v \in GetVersions : GetArtifactCall(a, v)
  \/ \E f \in ListArgs : ListArtifactsCall(f[1], f[2], f[3])

Spec == Init /\ [][Next]_vars

\* the calls that write, one after the other
WriteNext ==
  \/ \E k \in Kinds, m \in Metas, a \in IdArgs(store) :
       AddArtifact(k[1], k[2], m, a)
  \/ \E a \in Ids, m \in Metas : UpdateArtifact(a, m)
  \/ \E a \in Ids, d \in DeleteArgs : DeleteArtifact(a, d[1], d[2])

WriteSpec == Init /\ [][WriteNext]_vars

\* sequential calls whose metadata holds custom keys only
CleanNext ==
  \/ \E k \in Kinds, m \in ConcMetas, a \in IdArgs(store) :
       AddArtifact(k[1], k[2], m, a)
  \/ \E a \in Ids, m \in ConcMetas : UpdateArtifact(a, m)
  \/ \E a \in Ids, d \in DeleteArgs : DeleteArtifact(a, d[1], d[2])

CleanSpec == Init /\ [][CleanNext]_vars

\* metadata whose reserved keys preset the status and the version number of
\* the record
ArchivedMeta == [k \in {"status", "version"} |-> IF k = "status" THEN ARCHIVED ELSE 2]
OverrideMetas == {NoMeta, ArchivedMeta}

\* sequential calls whose metadata may preset status and version
OverrideNext ==
  \/ \E k \in Kinds, m \in OverrideMetas, a \in IdArgs(store) :
       AddArtifact(k[1], k[2], m, a)
  \/ \E a \in Ids, m \in OverrideMetas : UpdateArtifact(a, m)
  \/ \E a \in Ids, d \in DeleteArgs : DeleteArtifact(a, d[1], d[2])

OverrideSpec == Init /\ [][OverrideNext]_vars

\* two callers, interleaved
ConcNext ==
  \E p \in Procs :
    \/ \E k \in ConcKinds, m \in ConcMetas, a \in IdArgs(store) :
         CAdd(p, k[1], k[2], m, a)
    \/ \E a \in Ids, m \in ConcMetas : CUpdateRead(p, a, m)
    \/ CUpdateAdd(p)
    \/ \E a \in Ids, d \in DeleteArgs : CDeleteRead(p, a, d[1], d[2])
    \/ CDeleteGet(p)
    \/ CDeleteUpdate(p)

ConcSpec == Init /\ [][ConcNext]_vars
\* ------------------------------------------------------ failing index calls
\* The calls again, with one index call of the operation raising.  The field
\* fault of last names the index call that raised.

\* metadata maps given while index calls fail
FaultMetas == {NoMeta, StatusMeta}

\* get_artifact when its index call may raise: the except clause returns None
GetArtifactTry(st, artifact_id, version, index_raises) ==
  IF index_raises THEN NoOpt ELSE GetArtifact(st, artifact_id, version)

\* add_artifact whose collection.add raises
AddArtifactFault(id_arg) ==
  /\ last' = [op |-> "add",
              artifact_id |-> IF id_arg = NoOpt THEN Uuid4(store) ELSE id_arg[1],
              raised |-> TRUE, error |-> IndexError, fault |-> "add"]
  /\ prev' = store
  /\ UNCHANGED <<store, clock, pc, loc, rets, catalog>>

\* update_artifact with the index call named by fault raising: the fetch of
\* get_artifact ("get") or collection.add ("add")
UpdateArtifactFault(artifact_id, fault) ==
  LET latest == GetArtifactTry(store, artifact_id, NoOpt, fault = "get")
  IN /\ fault = "add" => latest # NoOpt
     /\ last' = [op |-> "update", artifact_id |-> artifact_id, raised |-> TRUE,
                 error |-> IF latest = NoOpt THEN NotFound ELSE IndexError,
                 fault |-> fault]
     /\ prev' = store
     /\ UNCHANGED <<store, clock, pc, loc, rets, catalog>>

\* delete_artifact with the index call named by fault raising: the fetch of
\* get_artifact ("get"), collection.get by key ("get_ids") or
\* collection.update ("update")
DeleteArtifactFault(artifact_id, fault) ==
  LET latest == GetArtifactTry(store, artifact_id, NoOpt, fault = "get")
  IN /\ fault # "get" => latest # NoOpt
     /\ fault = "update" =>
          Len(IndexGetIds(store, MakeArtifactId(artifact_id, latest[1].version))) > 0
     /\ last' = [op |-> "delete", artifact_id |-> artifact_id, raised |-> TRUE,
                 error |-> IF latest = NoOpt THEN NotFound ELSE IndexError,
                 fault |-> fault]
     /\ prev' = store
     /\ UNCHANGED <<store, clock, pc, loc, rets, catalog>>

\* get_artifact whose index call raises
GetArtifactFault(artifact_id, version) ==
  /\ last' = [op |-> "get", artifact_id |-> artifact_id, version |-> version,
              raised |-> FALSE, fault |-> "get",
              result |-> GetArtifactTry(store, artifact_id, version, TRUE)]
  /\ prev' = store
  /\ UNCHANGED <<store, clock, pc, loc, rets, catalog>>

FaultNext ==
  \/ \E k \in ConcKinds, m \in FaultMetas, a \in IdArgs(store) :
       AddArtifact(k[1], k[2], m, a)
  \/ \E a \in Ids, m \in FaultMetas : UpdateArtifact(a, m)
  \/ \E a \in Ids, d \in DeleteArgs : DeleteArtifact(a, d[1], d[2])
  \/ \E a \in Ids, v \in GetVersions : GetArtifactCall(a, v)
  \/ \E a \in IdArgs(store) : AddArtifactFault(a)
  \/ \E a \in Ids, f \in {"get", "add"} : UpdateArtifactFault(a, f)
  \/ \E a \in Ids, f \in {"get", "get_ids", "update"} : DeleteArtifactFault(a, f)
  \/ \E a \in Ids, v \in GetVersions : GetArtifactFault(a, v)

FaultSpec == Init /\ [][FaultNext]_vars

\* ------------------------------------------------------------ task catalog
\* TaskCatalogRepository (repositories/task_catalog.py): one record per task
\* type, keyed by the task type, in a collection of its own.  Its calls set
\* last, and prev to the catalog before the call.

\* task types and descriptions given to the catalog
CatalogTypes == {"task1", "task2", "task3"}
Descriptions == {"Original description", "Updated description"}

\* ValueError(f"Task type {task_type} not found") of update_task_type
TaskTypeNotFound == "ValueError: task type not found"

\* collection.update(ids=[id], documents=[document], metadatas=[metadata])
IndexUpdateDoc(st, id, document, metadata) ==
  [i \in 1..Len(st) |->
     IF st[i].id = id
     THEN [id |-> id, document |-> document,
           metadata |-> Merge(st[i].metadata, metadata)]
     ELSE st[i]]

\* the metadata of a catalog record
TaskTypeMetadata(task_type, description, created_at, updated_at) ==
  [k \in {"task_type", "description", "created_at", "updated_at"} |->
     CASE k = "task_type" -> task_type
       [] k = "description" -> description
       [] k = "created_at" -> created_at
       [] k = "updated_at" -> updated_at]

\* TaskTypeSchema built from a stored metadata map
TaskTypeView(metadata) ==
  [task_type |-> metadata["task_type"],
   description |-> metadata["description"],
   created_at |-> FromIso(metadata["created_at"]),
   updated_at |-> FromIso(metadata["updated_at"])]

\* get_task_type(task_type): <<view>>, or <<>> for None
GetTaskType(cat, task_type) ==
  LET result == IndexGetIds(cat, task_type)
  IN IF Len(result) = 0 THEN NoOpt ELSE Some(TaskTypeView(result[1].metadata))

\* ListTaskTypes stopping after the first record
ListTaskTypesFirst(cat) ==
  [i \in 1..(IF Len(cat) > 0 THEN 1 ELSE 0) |-> TaskTypeView(cat[i].metadata)]

\* list_task_types(): one view per stored record
ListTaskTypes(cat) ==
  [i \in 1..Len(cat) |-> TaskTypeView(cat[i].metadata)]

\* UpdatedMetadata with created_at set anew
UpdatedMetadataFresh(existing_metadata, task_type, description, now) ==
  TaskTypeMetadata(task_type, description, Iso(now), Iso(now))

\* the metadata update_task_type writes
UpdatedMetadata(existing_metadata, task_type, description, now) ==
  TaskTypeMetadata(task_type, description, existing_metadata["created_at"],
                   Iso(now))

\* register_task_type
RegisterTaskType(task_type, description) ==
  /\ clock < MaxOps
  /\ LET now == clock + 1
     IN /\ catalog' = IndexAdd(catalog, task_type, description,
                               TaskTypeMetadata(task_type, description,
                                                Iso(now), Iso(now)))
        /\ clock' = now
        /\ last' = [op |-> "register_task_type", task_type |-> task_type,
                    description |-> description, raised |-> FALSE,
                    result |-> [task_type |-> task_type,
                                description |-> description,
                                created_at |-> now, updated_at |-> now]]
  /\ prev' = catalog
  /\ UNCHANGED <<store, pc, loc, rets>>

\* update_task_type
UpdateTaskType(task_type, description) ==
  LET result == IndexGetIds(catalog, task_type)
      now == clock + 1
  IN /\ prev' = catalog
     /\ UNCHANGED <<store, pc, loc, rets>>
     /\ IF Len(result) = 0
        THEN /\ last' = [op |-> "update_task_type", task_type |-> task_type,
                         raised |-> TRUE, error |-> TaskTypeNotFound]
             /\ UNCHANGED <<catalog, clock>>
        ELSE LET existing_metadata == result[1].metadata
             IN /\ clock < MaxOps
                /\ clock' = now
                /\ catalog' = IndexUpdateDoc(catalog, task_type, description,
                                UpdatedMetadata(existing_metadata, task_type,
                                                description, now))
                /\ last' = [op |-> "update_task_type", task_type |-> task_type,
                            description |-> description, raised |-> FALSE,
                            result |-> [task_type |-> task_type,
                                        description |-> description,
                                        created_at |->
                                          FromIso(existing_metadata["created_at"]),
                                        updated_at |-> now]]

\* a call of get_task_type
GetTaskTypeCall(task_type) ==
  /\ last' = [op |-> "get_task_type", task_type |-> task_type,
              raised |-> FALSE, result |-> GetTaskType(catalog, task_type)]
  /\ prev' = catalog
  /\ UNCHANGED <<store, clock, pc, loc, rets, catalog>>

\* a call of list_task_types
ListTaskTypesCall ==
  /\ last' = [op |-> "list_task_types", raised |-> FALSE,
              result |-> ListTaskTypes(catalog)]
  /\ prev' = catalog
  /\ UNCHANGED <<store, clock, pc, loc, rets, catalog>>

CatalogNext ==
  \/ \E t \in CatalogTypes, d \in Descriptions : RegisterTaskType(t, d)
  \/ \E t \in CatalogTypes, d \in Descriptions : UpdateTaskType(t, d)
  \/ \E t \in CatalogTypes : GetTaskTypeCall(t)
  \/ ListTaskTypesCall

CatalogSpec == Init /\ [][CatalogNext]_vars

\* ---------------------------------------------------------------- claims
\* the last call was op and it returned
Returned(op) == last.op = op /\ ~last.raised

\* positions of the stored records whose artifact_id field is a
RecordsOf(st, a) ==
  {i \in 1..Len(st) : Get(st[i].metadata, "artifact_id") = a}

\* greatest version number stored for a (0 when a has no record)
MaxVersion(st, a) ==
  IF RecordsOf(st, a) = {} THEN 0
  ELSE CHOOSE v \in {st[i].metadata["version"] : i \in RecordsOf(st, a)} :
         \A i \in RecordsOf(st, a) : st[i].metadata["version"] <= v

\* positions of the records of st0 that are not the same in st1
Changed(st0, st1) ==
  {i \in 1..Len(st0) : i > Len(st1) \/ st1[i] # st0[i]}

\* the reserved keys, as the specification lists them
ReservedKeys ==
  {"task_type", "artifact_type", "version", "status", "created_at",
   "deprecated_at", "deprecated_reason", "replacement_id", "artifact_id"}

\* every (task_type, artifact_type, status) filter over the values in use
ListFilters ==
  ({None} \cup TaskTypes) \X ({None, "practice", "rule"}) \X ArtifactStatusValues

\* C1: for every artifact_id the first version stored is 1, a successful
\* update_artifact stores a version numbered (latest before the call) + 1, no
\* two stored versions of an artifact carry the same number, and the latest
\* version number never decreases.
C1_VersionNumbering ==
  \A a \in Ids :
    /\ (RecordsOf(prev, a) = {} /\ RecordsOf(store, a) # {})
         => \A i \in RecordsOf(store, a) : store[i].metadata["version"] = 1
    /\ (Returned("update") /\ last.artifact_id = a)
         => /\ Len(store) = Len(prev) + 1
            /\ Get(store[Len(store)].metadata, "artifact_id") = a
            /\ store[Len(store)].metadata["version"] = MaxVersion(prev, a) + 1
    /\ \A i, j \in RecordsOf(store, a) :
         i # j => store[i].metadata["version"] # store[j].metadata["version"]
    /\ MaxVersion(store, a) >= MaxVersion(prev, a)

\* C2: after update_artifact(id, C2) on an artifact whose latest version is N,
\* get_artifact(id) returns version N+1 with content C2, and
\* get_artifact(id, version=v) returns for every v <= N the content it
\* returned before the update.
C2_UpdateThenGet ==
  Returned("update") =>
    LET a == last.artifact_id
        N == GetArtifact(prev, a, NoOpt)[1].version
        g == GetArtifact(store, a, NoOpt)
    IN /\ g # NoOpt
       /\ g[1].version = N + 1
       /\ g[1].content = last.content
       /\ \A v \in 1..N :
            LET old == GetArtifact(prev, a, Some(v))
                new == GetArtifact(store, a, Some(v))
            IN old # NoOpt => (new # NoOpt /\ new[1].content = old[1].content)

\* C3: list_artifacts with status ACTIVE returns no entry for an artifact
\* whose latest version is archived.
C3_ListExcludesArchived ==
  \A f \in ListFilters :
    (f[3] = ACTIVE /\ ~ListRaises(store, f[1], f[2], f[3])) =>
      LET views == ListArtifacts(store, f[1], f[2], f[3])
      IN \A j \in 1..Len(views) :
           LET g == GetArtifact(store, views[j].artifact_id, NoOpt)
           IN ~(g # NoOpt /\ g[1].status = ARCHIVED)

\* C4: a delete_artifact(id) that returns stored no new record and left the
\* latest version number as it was, and get_artifact(id) is then ARCHIVED
\* with a deprecated_at.
C4_DeleteArchivesLatest ==
  Returned("delete") =>
    LET a == last.artifact_id
        before == GetArtifact(prev, a, NoOpt)
        g == GetArtifact(store, a, NoOpt)
    IN /\ Len(store) = Len(prev)
       /\ g # NoOpt
       /\ g[1].version = before[1].version
       /\ g[1].status = ARCHIVED
       /\ g[1].deprecated_at # NoOpt
\* the last completed call of caller p was op and it returned
CReturned(p, op) == rets[p].op = op /\ ~rets[p].raised

\* the last calls of p and q are update_artifact calls on one artifact_id
\* that both read the same latest version
UpdateRace(p, q) ==
  /\ p # q
  /\ CReturned(p, "update") /\ CReturned(q, "update")
  /\ rets[p].artifact_id = rets[q].artifact_id
  /\ rets[p].latest.version = rets[q].latest.version

\* positions of the records stored for artifact a with version number v
Numbered(st, a, v) ==
  {i \in RecordsOf(st, a) : st[i].metadata["version"] = v}

\* C5 as stated: two update_artifact calls that read the same latest version
\* N leave two stored versions numbered N+1 for the artifact_id.
C5_TwoVersionsSameNumber ==
  \A p, q \in Procs :
    UpdateRace(p, q) =>
      Cardinality(Numbered(store, rets[p].artifact_id,
                           rets[p].latest.version + 1)) = 2

\* C5 amended: two update_artifact calls that read the same latest version N
\* both return a view numbered N+1, each with the content it was given, but
\* the two adds go to the same key: exactly one record is stored under the
\* key of version N+1, holding the content of one of the calls; the other
\* call's content is stored nowhere.
C5_SameNumberOneRecord ==
  \A p, q \in Procs :
    UpdateRace(p, q) =>
      LET a == rets[p].artifact_id
          N == rets[p].latest.version
          hits == {i \in 1..Len(store) : store[i].id = MakeArtifactId(a, N + 1)}
          contents == {rets[p].result.content, rets[q].result.content}
      IN /\ rets[p].result.version = N + 1
         /\ rets[q].result.version = N + 1
         /\ Cardinality(hits) = 1
         /\ \A i \in hits : store[i].document \in contents
         /\ \E c \in contents : \A i \in 1..Len(store) : store[i].document # c

C5_Witness == \E p, q \in Procs : UpdateRace(p, q)

\* the last call of p is a delete_artifact and the last call of q an
\* update_artifact on the same artifact_id, both read the same latest version
\* and the update read it before it was archived
DeleteUpdateRace(p, q) ==
  /\ p # q
  /\ CReturned(p, "delete") /\ CReturned(q, "update")
  /\ rets[p].artifact_id = rets[q].artifact_id
  /\ rets[p].latest.version = rets[q].latest.version
  /\ rets[q].latest.status = ACTIVE

\* C6: when a delete_artifact and an update_artifact on one artifact_id both
\* read latest version N and overlap, delete_artifact archives version N and
\* returns an ARCHIVED view, and once both have returned get_artifact(id) is
\* version N+1 with status ACTIVE.
C6_LostArchive ==
  \A p, q \in Procs :
    DeleteUpdateRace(p, q) =>
      LET a == rets[p].artifact_id
          N == rets[p].latest.version
          g == GetArtifact(store, a, NoOpt)
          old == GetArtifact(store, a, Some(N))
      IN /\ rets[p].result.status = ARCHIVED
         /\ rets[p].result.version = N
         /\ old # NoOpt /\ old[1].status = ARCHIVED
         /\ g # NoOpt /\ g[1].version = N + 1 /\ g[1].status = ACTIVE

C6_Witness == \E p, q \in Procs : DeleteUpdateRace(p, q)

\* the record has been mutated after it was written
Mutated(d) == "deprecated_at" \in DOMAIN d.metadata

ChangedKeys(m0, m1) ==
  {k \in DOMAIN m0 \cup DOMAIN m1 :
     \/ k \notin DOMAIN m0 \/ k \notin DOMAIN m1
     \/ m0[k] # m1[k]}

\* C8: no call changes the content or the version number of a stored record;
\* a call changes only status, deprecated_at, deprecated_reason and
\* replacement_id of a stored record, and only of a record whose version
\* number is the greatest stored for its artifact_id.
C8_OnlyLifecycleOfLatest ==
  /\ Len(store) >= Len(prev)
  /\ \A i \in 1..Len(prev) :
       /\ store[i].id = prev[i].id
       /\ store[i].document = prev[i].document
       /\ ChangedKeys(prev[i].metadata, store[i].metadata)
            \subseteq {"status", "deprecated_at", "deprecated_reason",
                       "replacement_id"}
       /\ store[i] # prev[i] =>
            prev[i].metadata["version"]
              = MaxVersion(prev, prev[i].metadata["artifact_id"])

\* C9 as stated: the custom metadata of the view returned by add_artifact,
\* update_artifact, delete_artifact, get_artifact or list_artifacts contains no
\* reserved key.
ViewClean(view) == DOMAIN view.metadata \cap ReservedKeys = {}

ReadViewsClean ==
  /\ \A a \in Ids, v \in GetVersions :
       LET g == GetArtifact(store, a, v) IN g # NoOpt => ViewClean(g[1])
  /\ \A f \in ListFilters :
       ~ListRaises(store, f[1], f[2], f[3]) =>
         LET views == ListArtifacts(store, f[1], f[2], f[3])
         IN \A j \in 1..Len(views) : ViewClean(views[j])

C9_NoReservedKeyInAnyView ==
  /\ (Returned("add") \/ Returned("update") \/ Returned("delete"))
       => ViewClean(last.result)
  /\ ReadViewsClean

\* C9 amended: the views of get_artifact, list_artifacts and delete_artifact
\* contain no reserved key; the views add_artifact and update_artifact return
\* carry the caller's metadata map as it was given, reserved keys included.
C9_NoReservedKeyInStoredViews ==
  /\ Returned("delete") => ViewClean(last.result)
  /\ ReadViewsClean
  /\ (Returned("add") \/ Returned("update"))
       => last.result.metadata = last.metadata

C9_Witness ==
  /\ Returned("delete")
  /\ "priority" \in DOMAIN last.result.metadata
  /\ \E i \in Changed(prev, store) :
       DOMAIN store[i].metadata \cap ReservedKeys # {}

\* C10: after add_artifact with a metadata map, a key given as None is in
\* neither the stored record nor the view of get_artifact, and every other
\* non-reserved key is in the view of get_artifact with the value given.
C10_AddMetadataRoundTrip ==
  (Returned("add") /\ Len(store) = Len(prev) + 1) =>
    LET m == last.metadata
        stored == store[Len(store)].metadata
        g == GetArtifact(store, last.artifact_id, NoOpt)
    IN \A k \in DOMAIN m :
         /\ IsNone(k, m[k]) =>
              /\ k \notin DOMAIN stored
              /\ g # NoOpt => k \notin DOMAIN g[1].metadata
         /\ (~IsNone(k, m[k]) /\ k \notin ReservedKeys) =>
              /\ g # NoOpt
              /\ k \in DOMAIN g[1].metadata
              /\ g[1].metadata[k] = m[k]

\* C11: in every reachable store, for every (task_type, artifact_type,
\* status) filter, the list returned by list_artifacts has no two entries with
\* the same artifact_id.
C11_ListNoDuplicateIds ==
  \A f \in ListFilters :
    ~ListRaises(store, f[1], f[2], f[3]) =>
      LET views == ListArtifacts(store, f[1], f[2], f[3])
      IN \A i, j \in 1..Len(views) :
           views[i].artifact_id = views[j].artifact_id => i = j

\* several stored versions of one artifact match a filter and the artifact is
\* listed
C11_Witness ==
  \E f \in ListFilters :
    /\ ~ListRaises(store, f[1], f[2], f[3])
    /\ LET result == IndexGetWhere(store, ListWhere(f[1], f[2], f[3]))
           views == ListArtifacts(store, f[1], f[2], f[3])
       IN \E i, j \in 1..Len(result) :
            /\ i # j
            /\ result[i].metadata["artifact_id"] = result[j].metadata["artifact_id"]
            /\ \E k \in 1..Len(views) :
                 views[k].artifact_id = result[i].metadata["artifact_id"]

\* C12: update_artifact and delete_artifact called with an artifact_id that
\* has no stored version end in the not-found error and leave the store as
\* it was.
C12_UnknownIdNotFound ==
  (last.op \in {"update", "delete"} /\ RecordsOf(prev, last.artifact_id) = {}) =>
    /\ last.raised
    /\ last.error = NotFound
    /\ store = prev

\* the call was made on a store that holds records, none of them of the id
C12_Witness ==
  /\ last.op \in {"update", "delete"}
  /\ RecordsOf(prev, last.artifact_id) = {}
  /\ Len(prev) > 0
  /\ last.raised

\* the records get_artifact(artifact_id, version) fetches from st
Fetched(st, artifact_id, version) ==
  IF version # NoOpt
  THEN IndexGetIds(st, MakeArtifactId(artifact_id, version[1]))
  ELSE IndexGetWhere(st, [k \in {"artifact_id"} |-> artifact_id])

\* no record get_artifact fetches can be turned into a view
Unviewable(st, artifact_id, version) ==
  LET result == Fetched(st, artifact_id, version)
  IN \A i \in 1..Len(result) : ViewRaises(result[i].metadata)

\* C13: get_artifact never raises: when its index call raises, or the record
\* it retrieved cannot be turned into a view, it returns None; and it changes
\* no stored record.
C13_GetNeverRaises ==
  last.op = "get" =>
    /\ ~last.raised
    /\ store = prev
    /\ "fault" \in DOMAIN last => last.result = NoOpt
    /\ Unviewable(prev, last.artifact_id, last.version) => last.result = NoOpt

\* get_artifact fetched a record whose status is no ArtifactStatus value
C13_Witness ==
  /\ last.op = "get"
  /\ "fault" \notin DOMAIN last
  /\ Len(Fetched(prev, last.artifact_id, last.version)) > 0
  /\ Unviewable(prev, last.artifact_id, last.version)
  /\ last.result = NoOpt

\* C14: on add_artifact, update_artifact and delete_artifact an exception
\* raised by an index call of the operation, the read-latest fetch included,
\* reaches the caller as that same exception, and nothing is written.
C14_IndexErrorPropagates ==
  (last.op \in {"add", "update", "delete"} /\ "fault" \in DOMAIN last) =>
    /\ last.raised
    /\ last.error = IndexError
    /\ store = prev

\* version arguments of get_artifact tried on every store
VersionArgs == 0..(MaxOps + 1)

\* C15: get_artifact(artifact_id) with no version returns the view of a stored
\* record of that artifact_id whose version number is the greatest stored for
\* it, and returns None exactly when no record of that artifact_id is stored.
C15_GetLatestIsMax ==
  \A a \in Ids :
    LET g == GetArtifact(store, a, NoOpt)
    IN /\ g = NoOpt <=> RecordsOf(store, a) = {}
       /\ g # NoOpt =>
            /\ g[1].version = MaxVersion(store, a)
            /\ \E i \in RecordsOf(store, a) :
                 /\ store[i].metadata["version"] = g[1].version
                 /\ store[i].document = g[1].content

\* C16: get_artifact(artifact_id, version=v) returns the view of the record
\* stored under key "{artifact_id}_v{v}", with version v and the artifact_id
\* asked for, and None when no record is stored under that key (v above the
\* latest version and v <= 0 included).
C16_GetVersionByKey ==
  \A a \in Ids, v \in VersionArgs :
    LET result == IndexGetIds(store, MakeArtifactId(a, v))
        g == GetArtifact(store, a, Some(v))
    IN /\ Len(result) = 0 => g = NoOpt
       /\ Len(result) > 0 =>
            /\ g # NoOpt
            /\ g[1].content = result[1].document
            /\ g[1].version = v
            /\ g[1].artifact_id = a

\* C17: every add_artifact call returns a view with version 1 and status
\* ACTIVE and stores exactly one record, under key "{artifact_id}_v1", whose
\* version field is 1 and whose status field is ACTIVE.
C17_AddStoresVersionOne ==
  Returned("add") =>
    /\ last.result.version = 1
    /\ last.result.status = ACTIVE
    /\ Len(store) = Len(prev) + 1
    /\ store[Len(store)].id = MakeArtifactId(last.artifact_id, 1)
    /\ store[Len(store)].document = last.content
    /\ store[Len(store)].metadata["version"] = 1
    /\ store[Len(store)].metadata["status"] = ACTIVE

\* the custom part of a metadata map: its non-reserved keys that are not None
Custom(m) ==
  LET keep == {k \in DOMAIN m \ ReservedKeys : ~IsNone(k, m[k])}
  IN [k \in keep |-> m[k]]

\* C18: the record written by update_artifact has the task_type and
\* artifact_type of the latest version read at the start of the call, status
\* ACTIVE, and as custom metadata exactly the metadata given to this call
\* without its None entries: no custom key of the superseded version.
C18_UpdateRecordFields ==
  (Returned("update") /\ Len(store) = Len(prev) + 1) =>
    LET latest == GetArtifact(prev, last.artifact_id, NoOpt)[1]
        written == store[Len(store)].metadata
    IN /\ written["task_type"] = latest.task_type
       /\ written["artifact_type"] = latest.artifact_type
       /\ written["status"] = ACTIVE
       /\ Custom(written) = Custom(last.metadata)

\* C19: a successful update_artifact adds exactly one record and leaves every
\* record stored before the call unchanged, and every version get_artifact
\* fetched before the call is fetched the same after it.
C19_UpdateFrame ==
  Returned("update") =>
    /\ Len(store) = Len(prev) + 1
    /\ \A i \in 1..Len(prev) : store[i] = prev[i]
    /\ \A v \in VersionArgs :
         LET old == GetArtifact(prev, last.artifact_id, Some(v))
         IN old # NoOpt => GetArtifact(store, last.artifact_id, Some(v)) = old

\* C20: the view returned by a successful delete_artifact equals the stored
\* record it archived: get_artifact(id, version=returned.version) right after
\* the call gives status ARCHIVED and the deprecated_reason and
\* replacement_id of the returned view.
C20_DeleteViewIsStoredState ==
  Returned("delete") =>
    LET g == GetArtifact(store, last.artifact_id, Some(last.result.version))
    IN /\ last.result.status = ARCHIVED
       /\ g # NoOpt
       /\ g[1].status = ARCHIVED
       /\ g[1].deprecated_reason = last.result.deprecated_reason
       /\ g[1].replacement_id = last.result.replacement_id

\* the stored record d satisfies every equality a filter f asks for
Matches(d, f) ==
  /\ Get(d.metadata, "status") = f[3]
  /\ f[1] # None => Get(d.metadata, "task_type") = f[1]
  /\ f[2] # None => Get(d.metadata, "artifact_type") = f[2]

\* C21: every entry list_artifacts returns has the requested status and, for
\* each of task_type and artifact_type that is given, the requested value; and
\* every artifact with a stored version that satisfies all the requested
\* equalities has an entry.
C21_ListFilterExact ==
  \A f \in ListFilters :
    ~ListRaises(store, f[1], f[2], f[3]) =>
      LET views == ListArtifacts(store, f[1], f[2], f[3])
      IN /\ \A j \in 1..Len(views) :
              /\ views[j].status = f[3]
              /\ f[1] # None => views[j].task_type = f[1]
              /\ f[2] # None => views[j].artifact_type = f[2]
         /\ \A i \in 1..Len(store) :
              Matches(store[i], f) =>
                \E j \in 1..Len(views) :
                  views[j].artifact_id = store[i].metadata["artifact_id"]

\* a filter on task_type lists one stored artifact and leaves out another
C21_Witness ==
  \E f \in ListFilters :
    /\ f[1] # None
    /\ ~ListRaises(store, f[1], f[2], f[3])
    /\ Len(ListArtifacts(store, f[1], f[2], f[3])) > 0
    /\ \E i \in 1..Len(store) :
         /\ store[i].metadata["status"] = f[3]
         /\ store[i].metadata["task_type"] # f[1]

\* no stored version of artifact a has been archived
NeverArchived(st, a) ==
  \A i \in RecordsOf(st, a) :
    /\ st[i].metadata["status"] # ARCHIVED
    /\ "deprecated_at" \notin DOMAIN st[i].metadata

\* the task_type of artifact a: that of its first stored version
TaskTypeOf(st, a) ==
  st[CHOOSE i \in RecordsOf(st, a) : \A j \in RecordsOf(st, a) : i <= j]
    .metadata["task_type"]

\* C22: for an artifact that was created, updated any number of times and
\* never archived, list_artifacts(task_type of the artifact) returns exactly
\* one entry for it, and that entry is its latest version.
C22_ListShowsLatest ==
  \A a \in Ids :
    (RecordsOf(store, a) # {} /\ NeverArchived(store, a)) =>
      LET t == TaskTypeOf(store, a)
          views == ListArtifacts(store, t, None, ACTIVE)
          hits == {j \in 1..Len(views) : views[j].artifact_id = a}
      IN /\ ~ListRaises(store, t, None, ACTIVE)
         /\ Cardinality(hits) = 1
         /\ \A j \in hits : views[j].version = MaxVersion(store, a)

\* the calls so far were add_artifact, update_artifact and a returned
\* delete_artifact with a reason, all on the artifact of the last call
AddUpdateDelete ==
  /\ Returned("delete")
  /\ last.reason # None
  /\ clock = 3
  /\ Len(prev) = 2
  /\ prev[1].id = MakeArtifactId(last.artifact_id, 1)
  /\ prev[2].id = MakeArtifactId(last.artifact_id, 2)

\* C23: after add_artifact, update_artifact and delete_artifact(A, reason=R)
\* on one artifact A, list_artifacts(task_type, status=ARCHIVED) returns
\* exactly one entry: A at version 2 with deprecated_reason R.
C23_ArchivedListAfterDelete ==
  AddUpdateDelete =>
    LET t == prev[1].metadata["task_type"]
        views == ListArtifacts(store, t, None, ARCHIVED)
    IN /\ ~ListRaises(store, t, None, ARCHIVED)
       /\ Len(views) = 1
       /\ views[1].artifact_id = last.artifact_id
       /\ views[1].version = 2
       /\ views[1].deprecated_reason = last.reason

\* the last call was add_artifact with an artifact_id whose version 1 key was
\* already stored
AddOfStoredId ==
  /\ last.op = "add"
  /\ \E i \in 1..Len(prev) : prev[i].id = MakeArtifactId(last.artifact_id, 1)

\* C24: add_artifact with a caller-supplied artifact_id that already has
\* stored versions does not raise: it returns a version 1 ACTIVE view with
\* the new content, whatever the latest version of that artifact_id is; its
\* one index add goes to the key of version 1, which is stored, so no stored
\* record changes.
C24_AddOfStoredIdReturns ==
  AddOfStoredId =>
    /\ ~last.raised
    /\ last.result.artifact_id = last.artifact_id
    /\ last.result.version = 1
    /\ last.result.status = ACTIVE
    /\ last.result.content = last.content
    /\ \A i \in 1..Len(prev) : prev[i].document # last.content
    /\ store = prev

\* the artifact_id given to add_artifact had a latest version other than 1
C24_Witness ==
  /\ AddOfStoredId
  /\ LET g == GetArtifact(prev, last.artifact_id, NoOpt)
     IN g # NoOpt /\ g[1].version = 2

\* the task types registered in catalog cat
Registered(cat) == {cat[i].id : i \in 1..Len(cat)}

\* C25: update_task_type on a registered task type replaces the stored
\* description, keeps the stored created_at, sets updated_at to a later time
\* than the previous updated_at, and get_task_type then returns the new
\* description.
C25_UpdateTaskType ==
  (last.op = "update_task_type" /\ last.task_type \in Registered(prev)) =>
    LET old == GetTaskType(prev, last.task_type)[1]
        new == GetTaskType(catalog, last.task_type)
    IN /\ ~last.raised
       /\ new # NoOpt
       /\ new[1].description = last.description
       /\ new[1].created_at = old.created_at
       /\ new[1].updated_at > old.updated_at
       /\ last.result = new[1]
       /\ \A i \in 1..Len(catalog) :
            catalog[i].id = last.task_type =>
              catalog[i].document = last.description

\* a task type updated before is updated again, to another description
C25_Witness ==
  /\ last.op = "update_task_type"
  /\ ~last.raised
  /\ LET old == GetTaskType(prev, last.task_type)[1]
     IN /\ old.updated_at > old.created_at
        /\ old.description # last.description

\* C26: get_task_type on an unregistered task type returns None without
\* raising; update_task_type on an unregistered task type raises the
\* not-found ValueError and leaves the catalog unchanged.
C26_UnregisteredTaskType ==
  /\ (last.op = "get_task_type" /\ last.task_type \notin Registered(prev)) =>
       ~last.raised /\ last.result = NoOpt
  /\ (last.op = "update_task_type" /\ last.task_type \notin Registered(prev)) =>
       /\ last.raised
       /\ last.error = TaskTypeNotFound
       /\ catalog = prev

\* update_task_type of an unregistered type on a catalog that holds others
C26_Witness ==
  /\ last.op = "update_task_type"
  /\ last.task_type \notin Registered(prev)
  /\ Len(prev) > 0
  /\ last.raised

\* C27: after registering distinct task types, list_task_types returns
\* exactly one entry per registered task type and no other, and
\* get_task_type(t) returns the task_type and description given at the
\* registration of t.  Stated for each registration of a new task type: the
\* new type is returned as registered and listed once, and what is returned
\* for the types registered before is unchanged.
C27_RegisterThenListAndGet ==
  (last.op = "register_task_type" /\ last.task_type \notin Registered(prev)) =>
    LET views == ListTaskTypes(catalog)
        g == GetTaskType(catalog, last.task_type)
    IN /\ g # NoOpt
       /\ g[1].task_type = last.task_type
       /\ g[1].description = last.description
       /\ {views[i].task_type : i \in 1..Len(views)}
            = Registered(prev) \cup {last.task_type}
       /\ \A i, j \in 1..Len(views) :
            views[i].task_type = views[j].task_type => i = j
       /\ \A t \in Registered(prev) :
            GetTaskType(catalog, t) = GetTaskType(prev, t)

\* the third distinct task type is registered
C27_Witness ==
  /\ last.op = "register_task_type"
  /\ last.task_type \notin Registered(prev)
  /\ Len(prev) = 2
  /\ Len(ListTaskTypes(catalog)) = 3

\* the last call was update_artifact on an artifact whose stored record of
\* the greatest version number was ARCHIVED
UpdateOfArchived ==
  /\ last.op = "update"
  /\ RecordsOf(prev, last.artifact_id) # {}
  /\ \A i \in RecordsOf(prev, last.artifact_id) :
       prev[i].metadata["version"] = MaxVersion(prev, last.artifact_id) =>
         prev[i].metadata["status"] = ARCHIVED

\* the views of sequence views that are of artifact a
ViewsOf(views, a) == {j \in 1..Len(views) : views[j].artifact_id = a}

\* C28: update_artifact on an artifact whose latest version N is ARCHIVED is
\* not rejected: it stores version N+1 with status ACTIVE while version N
\* stays ARCHIVED, and afterwards list_artifacts(status=ACTIVE) returns the
\* artifact at version N+1 and list_artifacts(status=ARCHIVED) returns it at
\* version N.
C28_UpdateOfArchivedRevives ==
  UpdateOfArchived =>
    LET a == last.artifact_id
        n == MaxVersion(prev, a)
        active == ListArtifacts(store, None, None, ACTIVE)
        archived == ListArtifacts(store, None, None, ARCHIVED)
    IN /\ ~last.raised
       /\ \E i \in RecordsOf(store, a) :
            /\ store[i].metadata["version"] = n + 1
            /\ store[i].metadata["status"] = ACTIVE
       /\ \A i \in RecordsOf(store, a) :
            store[i].metadata["version"] = n =>
              store[i].metadata["status"] = ARCHIVED
       /\ ~ListRaises(store, None, None, ACTIVE)
       /\ ~ListRaises(store, None, None, ARCHIVED)
       /\ ViewsOf(active, a) # {}
       /\ \A j \in ViewsOf(active, a) : active[j].version = n + 1
       /\ ViewsOf(archived, a) # {}
       /\ \A j \in ViewsOf(archived, a) : archived[j].version = n

\* update_artifact returned on an artifact whose latest version was ARCHIVED
C28_Case == UpdateOfArchived /\ ~last.raised

\* the last call was add_artifact or update_artifact, it returned, and its
\* index add stored a record
Wrote ==
  /\ Returned("add") \/ Returned("update")
  /\ Len(store) = Len(prev) + 1

\* C29: caller-supplied metadata cannot change the reserved fields of a
\* stored record: the record stored by add_artifact or update_artifact has the
\* version (1 or latest+1), status ACTIVE, artifact_id, task_type and
\* artifact_type the call computed and returned, whatever keys the metadata
\* holds, and a following get_artifact(id) returns that version.
C29_ReservedFieldsComputed ==
  Wrote =>
    LET m == store[Len(store)].metadata
        got == GetArtifact(store, last.artifact_id, NoOpt)
    IN /\ m["artifact_id"] = last.artifact_id
       /\ m["version"] = last.result.version
       /\ m["version"] = MaxVersion(prev, last.artifact_id) + 1
       /\ m["status"] = ACTIVE
       /\ m["task_type"] = last.result.task_type
       /\ m["artifact_type"] = last.result.artifact_type
       /\ got # NoOpt
       /\ got[1].version = last.result.version

\* a record was stored by a call whose metadata holds a reserved key
C29_Case == Wrote /\ DOMAIN last.metadata \cap ReservedKeys # {}

\* C30: archival of a version is permanent: a stored record whose status is
\* ARCHIVED is still stored, under the same key, with status ARCHIVED after
\* every add_artifact, update_artifact and delete_artifact call.
C30_ArchivedStays ==
  \A i \in 1..Len(prev) :
    prev[i].metadata["status"] = ARCHIVED =>
      /\ i <= Len(store)
      /\ store[i].id = prev[i].id
      /\ store[i].metadata["status"] = ARCHIVED

\* update_artifact stored a new version of an artifact that has an ARCHIVED
\* version
C30_Witness ==
  /\ Returned("update")
  /\ Len(store) = Len(prev) + 1
  /\ \E i \in RecordsOf(prev, last.artifact_id) :
       prev[i].metadata["status"] = ARCHIVED

\* the artifact_id fields of the stored records
ArtifactIds(st) == {Get(st[i].metadata, "artifact_id") : i \in 1..Len(st)}

\* C31: for callers that put no reserved key in metadata, in every reachable
\* state, interleaved update_artifact and delete_artifact calls included, the
\* stored records of each artifact_id carry pairwise distinct version numbers
\* that form the set 1..N, and the record with version v is stored under key
\* "{artifact_id}_v{v}".
C31_VersionsContiguous ==
  \A a \in ArtifactIds(store) :
    LET R == RecordsOf(store, a)
    IN /\ \A i, j \in R :
            store[i].metadata["version"] = store[j].metadata["version"] => i = j
       /\ {store[i].metadata["version"] : i \in R} = 1..Cardinality(R)
       /\ \A i \in R :
            store[i].id = MakeArtifactId(a, store[i].metadata["version"])

\* two overlapping calls on one artifact_id, an update_artifact and an
\* update_artifact or a delete_artifact, have returned and the artifact has
\* more than one stored version
C31_Witness ==
  \E p, q \in Procs :
    /\ UpdateRace(p, q) \/ DeleteUpdateRace(p, q)
    /\ Cardinality(RecordsOf(store, rets[q].artifact_id)) >= 2

\* C32: for callers that put no reserved key in metadata, after any sequence
\* of add_artifact, update_artifact and delete_artifact calls every stored
\* version of an artifact_id has the task_type and the artifact_type of the
\* version 1 record of that artifact_id.
C32_TypesOfVersionOne ==
  \A a \in ArtifactIds(store) :
    \E f \in RecordsOf(store, a) :
      /\ store[f].id = MakeArtifactId(a, 1)
      /\ \A i \in RecordsOf(store, a) :
           /\ store[i].metadata["task_type"] = store[f].metadata["task_type"]
           /\ store[i].metadata["artifact_type"]
                = store[f].metadata["artifact_type"]

\* update_artifact stored a further version of an artifact while an artifact
\* of another task_type and artifact_type is stored
C32_Witness ==
  /\ Returned("update")
  /\ Cardinality(RecordsOf(store, last.artifact_id)) >= 2
  /\ \E i \in 1..Len(store) :
       /\ store[i].metadata["artifact_id"] # last.artifact_id
       /\ store[i].metadata["task_type"] # last.result.task_type
       /\ store[i].metadata["artifact_type"] # last.result.artifact_type

\* C33: for callers that put no reserved key in metadata, every stored record
\* has status ACTIVE or ARCHIVED, never DEPRECATED, and a record has a
\* deprecated_at value if and only if its status is ARCHIVED.
C33_StatusAndDeprecatedAt ==
  \A i \in 1..Len(store) :
    /\ store[i].metadata["status"] \in {ACTIVE, ARCHIVED}
    /\ "deprecated_at" \in DOMAIN store[i].metadata
         <=> store[i].metadata["status"] = ARCHIVED

\* delete_artifact archived a record while another record of the same
\* artifact is ACTIVE or ARCHIVED
C33_Witness ==
  /\ Returned("delete")
  /\ Changed(prev, store) # {}
  /\ Cardinality(RecordsOf(store, last.artifact_id)) >= 2

\* the stored records, in order, whose artifact_id field is not a
Others(st, a) == SelectSeq(st, LAMBDA d : Get(d.metadata, "artifact_id") # a)

\* C34: operations on one artifact_id never affect another:
\* update_artifact(X, ...) and delete_artifact(X, ...) leave the stored
\* records whose artifact_id is not X as they were, so what get_artifact
\* returns for every other artifact_id is the same after the call as before.
C34_OtherArtifactsUntouched ==
  (Returned("update") \/ Returned("delete")) =>
    /\ Others(store, last.artifact_id) = Others(prev, last.artifact_id)
    /\ \A b \in Ids \ {last.artifact_id} :
         GetArtifact(store, b, NoOpt) = GetArtifact(prev, b, NoOpt)

\* update_artifact or delete_artifact returned while another artifact is
\* stored
C34_Case ==
  /\ Returned("update") \/ Returned("delete")
  /\ Others(prev, last.artifact_id) # <<>>

\* C34, the interleaved calls of callers that put no reserved key in
\* metadata: the write of a call on artifact_id X, made at any point of an
\* interleaving, leaves the records of every other artifact_id and what
\* get_artifact returns for it as they were, so a call on another
\* artifact_id that has read its latest version writes what it would write
\* when run alone.
C34_WritesCommute ==
  [][\A p \in Procs :
       (pc[p] \in {"update_add", "delete_update"} /\ pc'[p] = "idle") =>
         /\ Others(store', loc[p].artifact_id) = Others(store, loc[p].artifact_id)
         /\ \A b \in Ids \ {loc[p].artifact_id} :
              GetArtifact(store', b, NoOpt) = GetArtifact(store, b, NoOpt)]_vars

\* the last call was delete_artifact on an artifact whose latest version was
\* ARCHIVED
DeleteOfArchived ==
  /\ last.op = "delete"
  /\ GetArtifact(prev, last.artifact_id, NoOpt) # NoOpt
  /\ GetArtifact(prev, last.artifact_id, NoOpt)[1].status = ARCHIVED

\* C35: delete_artifact on an artifact whose latest version is already
\* ARCHIVED succeeds: no record is added, the latest version keeps its
\* version number and status ARCHIVED, its deprecated_at and
\* deprecated_reason become those of this call, and its replacement_id
\* becomes that of this call only when the call gives one.
C35_DeleteOfArchived ==
  DeleteOfArchived =>
    LET old == GetArtifact(prev, last.artifact_id, NoOpt)[1]
        got == GetArtifact(store, last.artifact_id, NoOpt)
    IN /\ ~last.raised
       /\ Len(store) = Len(prev)
       /\ got # NoOpt
       /\ got[1].version = old.version
       /\ got[1].status = ARCHIVED
       /\ got[1].deprecated_at = Some(clock)
       /\ old.deprecated_at # NoOpt =>
            got[1].deprecated_at[1] > old.deprecated_at[1]
       /\ got[1].deprecated_reason = last.reason
       /\ got[1].replacement_id =
            IF last.replacement_id # None THEN last.replacement_id
            ELSE old.replacement_id
       /\ got[1].content = old.content

\* the second delete_artifact gives no reason and no replacement_id where the
\* first gave both
C35_Witness ==
  /\ DeleteOfArchived
  /\ ~last.raised
  /\ last.reason = None
  /\ GetArtifact(prev, last.artifact_id, NoOpt)[1].deprecated_reason # None
  /\ GetArtifact(prev, last.artifact_id, NoOpt)[1].replacement_id # None

\* the fields of view v that a caller compares
Compared(v) ==
  [artifact_id |-> v.artifact_id, version |-> v.version,
   task_type |-> v.task_type, artifact_type |-> v.artifact_type,
   content |-> v.content, status |-> v.status, metadata |-> v.metadata]

\* C36: the view returned by add_artifact or update_artifact equals the view
\* that get_artifact(id) returns immediately afterwards (artifact_id, version,
\* task_type, artifact_type, content, status and custom metadata), for every
\* metadata map, maps with None values included.
C36_ReturnedViewIsStoredView ==
  (Returned("add") \/ Returned("update")) =>
    LET got == GetArtifact(store, last.artifact_id, NoOpt)
    IN /\ got # NoOpt
       /\ Compared(got[1]) = Compared(last.result)

\* add_artifact or update_artifact returned and its metadata held a key with
\* value None
C36_Case ==
  /\ Returned("add") \/ Returned("update")
  /\ \E k \in DOMAIN last.metadata : IsNone(k, last.metadata[k])

\* the fields delete_artifact sets
LifecycleKeys == {"status", "deprecated_at", "deprecated_reason", "replacement_id"}

\* the metadata map the last delete_artifact call handed to collection.update
WrittenBack ==
  LET latest == GetArtifact(prev, last.artifact_id, NoOpt)[1]
      result == IndexGetIds(prev, MakeArtifactId(last.artifact_id, latest.version))
  IN ArchivedMetadata(result[1].metadata, clock, last.reason, last.replacement_id)

\* the last call was a delete_artifact that wrote a record back
Archived == Returned("delete") /\ clock > 0 /\ Changed(prev, store) # {}

\* delete_artifact changes only lifecycle fields of the record it archives:
\* key, content and every metadata entry outside status, deprecated_at,
\* deprecated_reason and replacement_id are the same after the call as before
C37_OnlyLifecycleFields ==
  Archived =>
    \A i \in Changed(prev, store) :
      /\ store[i].id = prev[i].id
      /\ store[i].document = prev[i].document
      /\ ChangedKeys(prev[i].metadata, store[i].metadata) \subseteq LifecycleKeys

C37_Case == Archived /\ last.reason = None

====
